---- MODULE Spec2Model ----
(***************************************************************************)
(* A model of the blog's loader (utils/blogLoader: loadBlogPosts,          *)
(* getCategories), of the routed views that call it (App.jsx: HomePage,    *)
(* BlogPostPage) and of the markdown renderer (BlogPost.jsx:               *)
(* renderContent).                                                         *)
(*                                                                         *)
(* Strings whose characters the code inspects (file names, slugs,          *)
(* categories, markdown lines) are sequences of one-character strings.     *)
(* An optional value (a front-matter field that may be missing, a null     *)
(* argument) is <<>> when absent and <<v>> when present.                   *)
(***************************************************************************)
EXTENDS Integers, Sequences, FiniteSets, TLC

VARIABLES
  blogContents,   \* the content table: file name -> raw document, in insertion order
  posts,          \* loadBlogPosts' local array, as its latest execution left it
  id,             \* loadBlogPosts' local counter, as its latest execution left it
  console,        \* what the latest operation wrote with console.error
  op,             \* the latest operation: its name, its argument and what it returned
  preceded,       \* what came before the latest operation: nothing, the same call or another
  route,          \* the current location: the list view or the detail view
  view,           \* what the routed page rendered for that location
  markdown,       \* renderContent's argument
  lines,          \* renderContent: markdown.split('\n')
  index,          \* renderContent: how many lines forEach has passed to the callback
  elements,       \* renderContent: the nodes emitted so far
  currentParagraph, \* renderContent: the formatted lines of the pending paragraph
  inCodeBlock,    \* renderContent: whether a fence is open
  codeLines,      \* renderContent: the lines since the opening fence
  listItems,      \* renderContent: the items of the pending list
  pc              \* renderContent: not called, in the loop, or returned

loaderVars == <<blogContents, posts, id, console, op, preceded, route, view>>
renderVars ==
  <<markdown, lines, index, elements, currentParagraph, inCodeBlock,
    codeLines, listItems, pc>>
vars == <<loaderVars, renderVars>>

----------------------------------------------------------------------------
(* Bounds of the model *)

\* the number of documents in the content table
MaxDocs == 2

\* the number of lines of a markdown text handed to renderContent
MaxLines == 3

----------------------------------------------------------------------------
(* Strings *)

\* UTF-16 code units of the characters the model's strings use
Code(ch) ==
  CASE ch = " " -> 32 [] ch = "+" -> 43 [] ch = "." -> 46
    [] ch = "A" -> 65 [] ch = "C" -> 67 [] ch = "G" -> 71 [] ch = "S" -> 83 [] ch = "W" -> 87
    [] ch = "a" -> 97 [] ch = "b" -> 98 [] ch = "c" -> 99 [] ch = "d" -> 100
    [] ch = "e" -> 101 [] ch = "l" -> 108 [] ch = "m" -> 109 [] ch = "n" -> 110
    [] ch = "r" -> 114 [] ch = "s" -> 115 [] ch = "w" -> 119 [] ch = "x" -> 120

\* s < t in the order of String.prototype comparison: code unit by code unit,
\* a proper prefix first
RECURSIVE StrLess(_, _)
StrLess(s, t) ==
  IF t = <<>> THEN FALSE
  ELSE IF s = <<>> THEN TRUE
  ELSE IF Code(Head(s)) # Code(Head(t)) THEN Code(Head(s)) < Code(Head(t))
  ELSE StrLess(Tail(s), Tail(t))

\* s.startsWith(p)
StartsWith(s, p) ==
  /\ Len(s) >= Len(p)
  /\ SubSeq(s, 1, Len(p)) = p

\* the least index from which p occurs in s at or after from, 0 when there is none
RECURSIVE IndexOf(_, _, _)
IndexOf(s, p, from) ==
  IF from + Len(p) - 1 > Len(s) THEN 0
  ELSE IF SubSeq(s, from, from + Len(p) - 1) = p THEN from
  ELSE IndexOf(s, p, from + 1)

\* s.replace(p, r) with a string pattern p: the first occurrence only
ReplaceFirst(s, p, r) ==
  LET i == IndexOf(s, p, 1) IN
  IF i = 0 THEN s
  ELSE SubSeq(s, 1, i - 1) \o r \o SubSeq(s, i + Len(p), Len(s))

\* JavaScript's falsiness of an optional string: null, undefined or ""
Falsy(opt) == opt = <<>> \/ opt[1] = <<>>

----------------------------------------------------------------------------
(* The content store *)

General == <<"G", "e", "n", "e", "r", "a", "l">>
All == <<"A", "l", "l">>
AWS == <<"A", "W", "S">>
aws == <<"a", "w", "s">>
CPlusPlus == <<"C", "+", "+">>
DotMd == <<".", "m", "d">>

\* the keys of the content table, by position
FileNames ==
  << <<"a">> \o DotMd, <<"b">> \o DotMd \o DotMd, <<"c">> \o DotMd,
     <<"d">> \o DotMd >>

\* the markdown body of the document at a position
Body(i) == <<"body", i>>

\* front-matter values of the bounded content set
DateValues == {<<>>, <<1>>, <<2>>}
CategoryValues == {<<>>, << <<>> >>, <<All>>, <<AWS>>, <<aws>>}

\* the arguments loadBlogPosts is called with: null, "" and category names,
\* among them the default and names no document need carry
CategoryArgs == {<<>>, << <<>> >>, <<General>>, <<All>>, <<AWS>>, <<aws>>}

\* the front-matter of a document of the bounded content set: either a title,
\* an excerpt, tags, any date and a category name or none (the names "All"
\* and "C++" with one date only), or nothing but a date and a category that
\* is missing or empty
FrontMatters ==
  { [title |-> <<"T">>, date |-> d, excerpt |-> <<"E">>, category |-> c,
     tags |-> << <<"t1", "t2">> >>] :
      d \in DateValues, c \in {<<>>, <<AWS>>, <<aws>>} }
    \cup
  { [title |-> <<"T">>, date |-> <<1>>, excerpt |-> <<"E">>,
     category |-> <<c>>, tags |-> << <<"t1", "t2">> >>] :
      c \in {All, CPlusPlus} }
    \cup
  { [title |-> <<>>, date |-> d, excerpt |-> <<>>, category |-> c,
     tags |-> <<>>] :
      d \in {<<>>, <<2>>}, c \in CategoryValues \ {<<All>>, <<AWS>>, <<aws>>} }

NoData ==
  [title |-> <<>>, date |-> <<>>, excerpt |-> <<>>, category |-> <<>>,
   tags |-> <<>>]

\* a raw document: one whose front-matter block the parser rejects, or a
\* front-matter block followed by a body
RawDocuments(i) ==
  {[wellFormed |-> FALSE, data |-> NoData, body |-> Body(i)]}
    \cup {[wellFormed |-> TRUE, data |-> fm, body |-> Body(i)] :
            fm \in FrontMatters}

\* the content tables of n documents of the bounded content set
RECURSIVE Tables(_)
Tables(n) ==
  IF n = 0 THEN {<<>>}
  ELSE { Append(t, [filename |-> FileNames[n], content |-> c]) :
           t \in Tables(n - 1), c \in RawDocuments(n) }

ContentTables == UNION { Tables(n) : n \in 0..MaxDocs }

----------------------------------------------------------------------------
(* The loader *)

\* matter(content): the front-matter fields and the body, or an exception
Matter(content) ==
  [threw |-> ~content.wellFormed, data |-> content.data,
   content |-> content.body]

\* a post object literal without the two defaults
BuildPostNoDefaults(n, filename, m) ==
  [id |-> n,
   slug |-> ReplaceFirst(filename, DotMd, <<>>),
   title |-> m.data.title,
   date |-> m.data.date,
   excerpt |-> m.data.excerpt,
   content |-> m.content,
   category |-> IF m.data.category = <<>> THEN <<>> ELSE m.data.category[1],
   tags |-> m.data.tags]

\* the post object literal built for one document
BuildPost(n, filename, m) ==
  [id |-> n,
   slug |-> ReplaceFirst(filename, DotMd, <<>>),
   title |-> m.data.title,
   date |-> m.data.date,
   excerpt |-> m.data.excerpt,
   content |-> m.content,
   category |-> IF Falsy(m.data.category) THEN General ELSE m.data.category[1],
   tags |-> IF m.data.tags = <<>> THEN <<>> ELSE m.data.tags[1]]

\* ASCII lower case of the letters the categories use
LowerCase(s) ==
  [k \in DOMAIN s |->
     CASE s[k] = "A" -> "a" [] s[k] = "W" -> "w" [] s[k] = "S" -> "s"
       [] s[k] = "G" -> "g" [] OTHER -> s[k]]

\* a filter that compares the categories without regard to case
RetainedIgnoringCase(category, post) ==
  Falsy(category) \/ LowerCase(post.category) = LowerCase(category[1])

\* the filter of the loop body: !category || post.category === category
Retained(category, post) ==
  Falsy(category) \/ post.category = category[1]

\* an array that is not made anew: the one the call before left
PostsLeftOver == posts

\* a counter that is not set anew: it goes on from the call before
IdLeftOver == id

\* the values loadBlogPosts gives its locals before the loop
IdStart == 1
PostsStart == <<>>

\* a loop that advances the counter only for the posts it keeps
RECURSIVE LoadLoopCountingKept(_, _, _, _)
LoadLoopCountingKept(table, i, st, category) ==
  IF i > Len(table) THEN st
  ELSE LET m == Matter(table[i].content) IN
       IF m.threw
       THEN [st EXCEPT !.console = Append(@, "Error loading blog posts:")]
       ELSE LET post == BuildPost(st.id, table[i].filename, m) IN
            LoadLoopCountingKept(table, i + 1,
                     IF Retained(category, post)
                     THEN [st EXCEPT !.id = @ + 1, !.posts = Append(@, post)]
                     ELSE st,
                     category)

\* a loop that logs the exception of a document and goes on to the next
RECURSIVE LoadLoopSkipping(_, _, _, _)
LoadLoopSkipping(table, i, st, category) ==
  IF i > Len(table) THEN st
  ELSE LET m == Matter(table[i].content) IN
       IF m.threw
       THEN LoadLoopSkipping(table, i + 1,
                     [st EXCEPT !.console = Append(@, "Error loading blog posts:")],
                     category)
       ELSE LET post == BuildPost(st.id, table[i].filename, m) IN
            LoadLoopSkipping(table, i + 1,
                     [st EXCEPT !.id = @ + 1,
                                !.posts = IF Retained(category, post)
                                          THEN Append(@, post) ELSE @],
                     category)

\* the for-of loop inside the try block, from the document at position i on;
\* an exception of matter leaves the loop for the catch clause, which logs it
RECURSIVE LoadLoop(_, _, _, _)
LoadLoop(table, i, st, category) ==
  IF i > Len(table) THEN st
  ELSE LET m == Matter(table[i].content) IN
       IF m.threw
       THEN [st EXCEPT !.console = Append(@, "Error loading blog posts:")]
       ELSE LET post == BuildPost(st.id, table[i].filename, m) IN
            LoadLoop(table, i + 1,
                     [st EXCEPT !.id = @ + 1,
                                !.posts = IF Retained(category, post)
                                          THEN Append(@, post) ELSE @],
                     category)

\* a comparator with its operands exchanged: oldest first
DateCompareAscending(a, b) ==
  IF a.date = <<>> \/ b.date = <<>> THEN 0 ELSE a.date[1] - b.date[1]

\* the sort comparator (a, b) => new Date(b.date) - new Date(a.date); a
\* missing date makes an Invalid Date, the difference is NaN, and the sort
\* takes a NaN result as +0
DateCompare(a, b) ==
  IF a.date = <<>> \/ b.date = <<>> THEN 0 ELSE b.date[1] - a.date[1]

\* x put into the sorted sequence s behind every element it does not precede
RECURSIVE Insert(_, _)
Insert(s, x) ==
  IF s = <<>> THEN <<x>>
  ELSE IF DateCompare(s[Len(s)], x) > 0
       THEN Append(Insert(SubSeq(s, 1, Len(s) - 1), x), s[Len(s)])
       ELSE Append(s, x)

\* Array.prototype.sort with the comparator: a stable insertion sort. With a
\* missing date the comparator is not consistent and the order is the
\* engine's; the insertion order is the one modelled.
RECURSIVE SortByDate(_)
SortByDate(s) ==
  IF s = <<>> THEN <<>>
  ELSE Insert(SortByDate(SubSeq(s, 1, Len(s) - 1)), s[Len(s)])

\* a return that numbers the posts anew in the order of the result
SortAndRenumber(st) ==
  [st EXCEPT !.posts = [k \in DOMAIN SortByDate(@) |->
                          [SortByDate(@)[k] EXCEPT !.id = k]]]

\* the return statement: the local array sorted in place and returned
SortAndReturn(st) == [st EXCEPT !.posts = SortByDate(@)]

\* loadBlogPosts(category) run on the table: its locals when it returns (the
\* array it returns among them) and what it logged
LoadBlogPosts(table, category) ==
  SortAndReturn(LoadLoop(table, 1,
                         [posts |-> PostsStart, id |-> IdStart, console |-> <<>>],
                         category))

\* [...new Set(xs)]: the distinct values in order of first occurrence
RECURSIVE Distinct(_)
Distinct(xs) ==
  IF xs = <<>> THEN <<>>
  ELSE LET front == Distinct(SubSeq(xs, 1, Len(xs) - 1))
           x == xs[Len(xs)]
       IN IF \E k \in DOMAIN front : front[k] = x THEN front
          ELSE Append(front, x)

RECURSIVE InsertStr(_, _)
InsertStr(s, x) ==
  IF s = <<>> THEN <<x>>
  ELSE IF StrLess(x, s[Len(s)])
       THEN Append(InsertStr(SubSeq(s, 1, Len(s) - 1), x), s[Len(s)])
       ELSE Append(s, x)

\* categories.sort(): the default order, by code units
RECURSIVE SortStrings(_)
SortStrings(s) ==
  IF s = <<>> THEN <<>>
  ELSE InsertStr(SortStrings(SubSeq(s, 1, Len(s) - 1)), s[Len(s)])

\* getCategories() without the Set: every post's category, sorted
CategoriesWithRepeats(loaded) ==
  <<All>> \o SortStrings([k \in DOMAIN loaded |-> loaded[k].category])

\* getCategories() that leaves the default category out of the list
CategoriesWithoutGeneral(loaded) ==
  <<All>> \o SortStrings(Distinct(SelectSeq([k \in DOMAIN loaded |-> loaded[k].category],
                                            LAMBDA c : c # General)))

\* getCategories() on the posts an unfiltered load returned
CategoriesOf(loaded) ==
  <<All>> \o SortStrings(Distinct([k \in DOMAIN loaded |-> loaded[k].category]))

----------------------------------------------------------------------------
(* Calls of the loader's two exported functions *)

NoView ==
  [page |-> "none", selectedCategory |-> <<>>, categories |-> <<>>,
   filter |-> <<>>, posts |-> <<>>, post |-> <<>>]

NoRoute == [path |-> "none", search |-> <<>>, slug |-> <<>>]

\* renderContent has not been called
RenderIdle ==
  /\ markdown = <<>>
  /\ lines = <<>>
  /\ index = 0
  /\ elements = <<>>
  /\ currentParagraph = <<>>
  /\ inCodeBlock = FALSE
  /\ codeLines = <<>>
  /\ listItems = <<>>
  /\ pc = "idle"

Init ==
  /\ blogContents \in ContentTables
  /\ posts = <<>>
  /\ id = 1
  /\ console = <<>>
  /\ op = [name |-> "none", arg |-> <<>>, ret |-> <<>>]
  /\ preceded = "nothing"
  /\ route = NoRoute
  /\ view = NoView
  /\ RenderIdle

\* how a call of name with arg relates to the operation before it
Preceding(name, arg) ==
  IF op.name = "none" THEN "nothing"
  ELSE IF op.name = name /\ op.arg = arg THEN "same call"
  ELSE "another call"

\* loadBlogPosts(category)
CallLoadBlogPosts(category) ==
  \E r \in {LoadBlogPosts(blogContents, category)} :
  /\ posts' = r.posts
  /\ id' = r.id
  /\ console' = r.console
  /\ op' = [name |-> "loadBlogPosts", arg |-> category, ret |-> r.posts]
  /\ preceded' = Preceding("loadBlogPosts", category)
  /\ UNCHANGED <<blogContents, route, view, renderVars>>

\* getCategories(), which loads without a filter
CallGetCategories ==
  \E r \in {LoadBlogPosts(blogContents, <<>>)} :
  /\ posts' = r.posts
  /\ id' = r.id
  /\ console' = r.console
  /\ op' = [name |-> "getCategories", arg |-> <<>>, ret |-> CategoriesOf(r.posts)]
  /\ preceded' = Preceding("getCategories", <<>>)
  /\ UNCHANGED <<blogContents, route, view, renderVars>>

Next ==
  \/ \E category \in CategoryArgs : CallLoadBlogPosts(category)
  \/ CallGetCategories

Spec == Init /\ [][Next]_vars

----------------------------------------------------------------------------
(* The routed views *)

CategoryKey == <<"c", "a", "t", "e", "g", "o", "r", "y">>
PostPrefix == <<"/", "p", "o", "s", "t", "/">>

\* the location a navigation target names: the path up to the first "?" and
\* the query from it, both up to the first "#"
ParsePath(to) ==
  LET h == IndexOf(to, <<"#">>, 1)
      noHash == IF h = 0 THEN to ELSE SubSeq(to, 1, h - 1)
      q == IndexOf(noHash, <<"?">>, 1)
  IN [pathname |-> IF q = 0 THEN noHash ELSE SubSeq(noHash, 1, q - 1),
      search |-> IF q = 0 THEN <<>> ELSE SubSeq(noHash, q, Len(noHash))]

\* the decoding of a query name or value: "+" stands for a space
PlusDecode(s) == [k \in DOMAIN s |-> IF s[k] = "+" THEN " " ELSE s[k]]

\* URLSearchParams.get(name) on the pairs of a query without its "?": the
\* value of the first pair of that name, null when there is none
RECURSIVE ParamsGet(_, _)
ParamsGet(query, name) ==
  IF query = <<>> THEN <<>>
  ELSE LET amp == IndexOf(query, <<"&">>, 1)
           pair == IF amp = 0 THEN query ELSE SubSeq(query, 1, amp - 1)
           rest == IF amp = 0 THEN <<>> ELSE SubSeq(query, amp + 1, Len(query))
           eq == IndexOf(pair, <<"=">>, 1)
           key == IF eq = 0 THEN pair ELSE SubSeq(pair, 1, eq - 1)
           val == IF eq = 0 THEN <<>> ELSE SubSeq(pair, eq + 1, Len(pair))
       IN IF pair # <<>> /\ PlusDecode(key) = name THEN <<PlusDecode(val)>>
          ELSE ParamsGet(rest, name)

\* searchParams.get(name) for a location's search string
SearchParamsGet(search, name) ==
  ParamsGet(IF StartsWith(search, <<"?">>) THEN Tail(search) ELSE search, name)

\* a find that takes a post whose slug merely begins with the one asked for
FindByPrefix(loaded, slug) ==
  LET hits == { k \in DOMAIN loaded : StartsWith(loaded[k].slug, slug) } IN
  IF hits = {} THEN <<>>
  ELSE << loaded[CHOOSE k \in hits : \A j \in hits : k <= j] >>

\* a find that asks for the slug without a ".md" in it
FindAfterStrip(loaded, slug) ==
  LET hits == { k \in DOMAIN loaded :
                  loaded[k].slug = ReplaceFirst(slug, DotMd, <<>>) } IN
  IF hits = {} THEN <<>>
  ELSE << loaded[CHOOSE k \in hits : \A j \in hits : k <= j] >>

\* posts.find(p => p.slug === slug): the first such post, undefined when none
Find(loaded, slug) ==
  LET hits == { k \in DOMAIN loaded : loaded[k].slug = slug } IN
  IF hits = {} THEN <<>>
  ELSE << loaded[CHOOSE k \in hits : \A j \in hits : k <= j] >>

\* what HomePage renders from the two loads it makes
HomeView(category, filter, nav, list) ==
  [view |-> [page |-> "home", selectedCategory |-> category,
             categories |-> CategoriesOf(nav.posts), filter |-> filter,
             posts |-> list.posts, post |-> <<>>],
   posts |-> list.posts, id |-> list.id,
   console |-> nav.console \o list.console]

\* HomePage for a search string: the category navigation calls getCategories,
\* then the list calls loadBlogPosts with the filter
HomePage(search) ==
  LET q == SearchParamsGet(search, CategoryKey)
      category == IF Falsy(q) THEN All ELSE q[1]
      filter == IF category = All THEN <<>> ELSE <<category>>
  IN HomeView(category, filter, LoadBlogPosts(blogContents, <<>>),
              LoadBlogPosts(blogContents, filter))

\* what BlogPostPage renders from the load it makes: the post of that slug
\* or the "Blog post not found" page
PostView(r, post) ==
  [view |-> [page |-> IF post = <<>> THEN "notfound" ELSE "post",
             selectedCategory |-> <<>>, categories |-> <<>>,
             filter |-> <<>>, posts |-> <<>>, post |-> post],
   posts |-> r.posts, id |-> r.id, console |-> r.console]

\* BlogPostPage for a slug: an unfiltered load, then posts.find
BlogPostPage(slug) ==
  \* the load is made once; a LET would make it for every use
  CHOOSE page \in { PostView(r, Find(r.posts, slug)) :
                      r \in {LoadBlogPosts(blogContents, <<>>)} } : TRUE

\* the one path segment after "/post/", when the path has that shape
SlugOf(pathname) ==
  LET seg == SubSeq(pathname, Len(PostPrefix) + 1, Len(pathname)) IN
  IF StartsWith(pathname, PostPrefix) /\ seg # <<>>
     /\ IndexOf(seg, <<"/">>, 1) = 0
  THEN <<seg>> ELSE <<>>

\* the Routes element: the page of the route the location matches
Render(loc) ==
  IF loc.pathname = <<"/">> THEN HomePage(loc.search)
  ELSE IF SlugOf(loc.pathname) # <<>> THEN BlogPostPage(SlugOf(loc.pathname)[1])
  ELSE [view |-> NoView, posts |-> posts, id |-> id, console |-> <<>>]

\* navigate(to), or the opening of the application at that address
Navigate(to) ==
  \E loc \in {ParsePath(to)} : \E r \in {Render(loc)} :
     /\ route' = [path |-> loc.pathname, search |-> loc.search,
                  slug |-> SlugOf(loc.pathname)]
     /\ view' = r.view
     /\ posts' = r.posts
     /\ id' = r.id
     /\ console' = r.console
     /\ UNCHANGED <<blogContents, op, preceded, renderVars>>

\* the addresses a visitor opens: the list view without and with a category
\* query, and the detail view of slugs that exist and of slugs that do not
HomeAddresses ==
  {<<"/">>}
    \cup { <<"/", "?">> \o CategoryKey \o <<"=">> \o c :
             c \in {<<>>, All, AWS, aws, General, <<"x">>} }

SlugInputs ==
  { ReplaceFirst(FileNames[i], DotMd, <<>>) : i \in DOMAIN FileNames }
    \cup {<<"b">>, FileNames[1]}

\* the application is opened, or reloaded, at an address
OpenHome(to) ==
  /\ route = NoRoute
  /\ Navigate(to)

OpenPost(slug) ==
  /\ route = NoRoute
  /\ Navigate(PostPrefix \o slug)

\* handleCategoryChange, from a button of the category navigation
HandleCategoryChange(newCategory) ==
  /\ view.page = "home"
  /\ \E k \in DOMAIN view.categories : view.categories[k] = newCategory
  /\ IF newCategory = All THEN Navigate(<<"/">>)
     ELSE Navigate(<<"/", "?">> \o CategoryKey \o <<"=">> \o newCategory)

\* handleSelectPost, from a card of the list
HandleSelectPost(k) ==
  /\ view.page = "home"
  /\ k \in DOMAIN view.posts
  /\ Navigate(PostPrefix \o view.posts[k].slug)

\* the back button, which the post page and the not-found page both render
BackButton == view.page \in {"post", "notfound"}

BackToHome ==
  /\ BackButton
  /\ Navigate(<<"/">>)

\* the click on the header
ClickHeader == Navigate(<<"/">>)

NextApp ==
  \/ \E to \in HomeAddresses : OpenHome(to)
  \/ \E slug \in SlugInputs : OpenPost(slug)
  \/ \E c \in {All, General, AWS, aws, CPlusPlus} : HandleCategoryChange(c)
  \/ \E k \in 1..(MaxDocs + 1) : HandleSelectPost(k)
  \/ BackToHome
  \/ ClickHeader

SpecApp == Init /\ [][NextApp]_vars

----------------------------------------------------------------------------
(* The markdown renderer *)

Newline == "\n"
\* the backquote character, which a string literal cannot hold
Backquote == "backquote"
Fence == <<Backquote, Backquote, Backquote>>
StarStar == <<"*", "*">>

\* markdown.split('\n')
RECURSIVE Split(_)
Split(s) ==
  LET i == IndexOf(s, <<Newline>>, 1) IN
  IF i = 0 THEN <<s>>
  ELSE <<SubSeq(s, 1, i - 1)>> \o Split(SubSeq(s, i + 1, Len(s)))

\* parts.join(sep)
RECURSIVE Join(_, _)
Join(parts, sep) ==
  IF parts = <<>> THEN <<>>
  ELSE IF Len(parts) = 1 THEN parts[1]
  ELSE parts[1] \o <<sep>> \o Join(Tail(parts), sep)

\* the characters \s and trim() take for white space
IsSpace(ch) == ch \in {" ", "\t"}

IsDigit(ch) == ch \in {"0", "1", "2", "3", "4", "5", "6", "7", "8", "9"}

\* the number of digits the line begins with
DigitRun(line) ==
  CHOOSE n \in 0..Len(line) :
    /\ \A k \in 1..n : IsDigit(line[k])
    /\ n < Len(line) => ~IsDigit(line[n + 1])

\* the length of the match of /^\d+\.\s/, 0 when the line does not match
NumberedMarker(line) ==
  LET n == DigitRun(line) IN
  IF n >= 1 /\ Len(line) >= n + 2 /\ line[n + 1] = "." /\ IsSpace(line[n + 2])
  THEN n + 2 ELSE 0

\* the tests of the callback's if-else chain, each as the code writes it
IsFence(line) == StartsWith(line, Fence)
IsH2(line) == StartsWith(line, <<"#", "#", " ">>)
IsH3(line) == StartsWith(line, <<"#", "#", "#", " ">>)
IsNumbered(line) == NumberedMarker(line) # 0
\* a bullet test that gives way to an image reference in the line
IsBulletWithoutImage(line) ==
  /\ StartsWith(line, <<"-", " ">>) \/ StartsWith(line, <<"*", " ">>)
  /\ IndexOf(line, <<"!", "[">>, 1) = 0

IsBullet(line) == StartsWith(line, <<"-", " ">>) \/ StartsWith(line, <<"*", " ">>)
\* a test that takes only the empty line for blank
IsEmptyLine(line) == line = <<>>

IsBlank(line) == \A k \in DOMAIN line : IsSpace(line[k])

\* line.match(/!\[(.*?)\]\((.*?)\)/): the two captures of the leftmost match,
\* each as short as can be, or no match
ImageMatch(line) ==
  LET p == IndexOf(line, <<"!", "[">>, 1)
      q == IF p = 0 THEN 0 ELSE IndexOf(line, <<"]", "(">>, p + 2)
      e == IF q = 0 THEN 0 ELSE IndexOf(line, <<")">>, q + 2)
  IN IF e = 0 THEN <<>>
     ELSE << [alt |-> SubSeq(line, p + 2, q - 1),
              src |-> SubSeq(line, q + 2, e - 1)] >>

\* a test for an image that looks for the opening "![" only
HasImageOpening(line) == IndexOf(line, <<"!", "[">>, 1) # 0

HasImage(line) == ImageMatch(line) # <<>>

\* text.replace(/\*\*(.*?)\*\*/g, '<strong>$1</strong>'); the two tags are
\* one element each of the result
RECURSIVE FormatBold(_)
FormatBold(text) ==
  LET p == IndexOf(text, StarStar, 1)
      q == IF p = 0 THEN 0 ELSE IndexOf(text, StarStar, p + 2)
  IN IF q = 0 THEN text
     ELSE SubSeq(text, 1, p - 1) \o <<"<strong>">> \o SubSeq(text, p + 2, q - 1)
            \o <<"</strong>">> \o FormatBold(SubSeq(text, q + 2, Len(text)))

\* a numbered line kept with its number
KeepNumber(line) == line

\* line.replace(/^\d+\.\s/, '') and line.replace(/^[*-]\s/, '')
StripNumber(line) == SubSeq(line, NumberedMarker(line) + 1, Len(line))
StripBullet(line) ==
  IF Len(line) >= 2 /\ line[1] \in {"*", "-"} /\ IsSpace(line[2])
  THEN SubSeq(line, 3, Len(line)) ELSE line

\* the nodes: <pre><code>, <p>, <ul> of <li>, <h2>/<h3>, <img>
Node(type, level, text, items, alt, src) ==
  [type |-> type, level |-> level, text |-> text, items |-> items,
   alt |-> alt, src |-> src]
CodeBlock(text) == Node("CodeBlock", 0, text, <<>>, <<>>, <<>>)
Paragraph(html) == Node("Paragraph", 0, html, <<>>, <<>>, <<>>)
List(items) == Node("List", 0, <<>>, items, <<>>, <<>>)
Heading(level, text) == Node("Heading", level, text, <<>>, <<>>, <<>>)
Image(alt, src) == Node("Image", 0, <<>>, <<>>, alt, src)

\* a paragraph flush that joins the buffered lines with newlines
FlushParagraphNewline(els, para) ==
  IF Len(para) > 0 THEN Append(els, Paragraph(Join(para, Newline))) ELSE els

\* if (currentParagraph.length > 0) elements.push(<p ...>)
FlushParagraph(els, para) ==
  IF Len(para) > 0 THEN Append(els, Paragraph(Join(para, " "))) ELSE els

\* a list flush that emits a list whatever the buffer holds
FlushListAlways(els, items) == Append(els, List(items))

\* if (listItems.length > 0) elements.push(<ul>...)
FlushList(els, items) ==
  IF Len(items) > 0 THEN Append(els, List(items)) ELSE els

\* the paragraph flush followed by the list flush
FlushBoth(els, para, items) == FlushList(FlushParagraph(els, para), items)

\* lines of the bounded input set
LFence == Fence
LFenceJs == Fence \o <<"j", "s">>
LH2 == <<"#", "#", " ", "T">>
LH3 == <<"#", "#", "#", " ", "T">>
LNumbered == <<"1", "2", ".", " ", "a">>
LBullet == <<"-", " ", "*", "*", "b", "*", "*">>
LStar == <<"*", " ", "c">>
LEmpty == <<>>
LSpaces == <<" ", " ">>
LImage == <<"!", "[", "A", "]", "(", "s", ")">>
LImageInText == <<"x">> \o LImage \o <<"y">>
LText == <<"p", " ", "*", "*", "q", "*", "*">>
LHashOnly == <<"#", "x">>
LImageUnclosed == <<"!", "[", "A", "]", "(", "s">>
LNumberNoSpace == <<"1", ".", "x">>
LH2Bold == <<"#", "#", " ", "*", "*", "T", "*", "*">>
LInline == <<"_", "i", "_", " ", "[", "l", "]", "(", "u", ")", " ",
             Backquote, "c", Backquote>>

\* lines with an image reference behind a list or heading marker
LBulletImage == <<"-", " ">> \o LImage
LNumberedImage == <<"7", ".", " ">> \o LImage
LH2Image == <<"#", "#", " ">> \o LImage
LH3Image == <<"#", "#", "#", " ">> \o LImage

LinePool ==
  {LFence, LFenceJs, LH2, LH3, LNumbered, LBullet, LStar, LEmpty, LSpaces,
   LImage, LImageInText, LText, LHashOnly, LImageUnclosed, LNumberNoSpace,
   LH2Bold, LInline}

\* the markdown text of each sequence of n lines of the pool
Texts(n) == { Join(ls, Newline) : ls \in [1..n -> LinePool] }

\* longer documents: a paragraph and a list pending at a fence whose block
\* holds a heading, an empty line and a list line; a list, an empty line
\* and a paragraph; list lines with a text line among them, then a heading;
\* text lines around an image
ExampleTexts ==
  { Join(<<LText, LBullet, LFenceJs, LH2, LEmpty, LBullet, LFence, LH3>>, Newline),
    Join(<< <<"-", " ", "o", "n", "e">>, <<"-", " ", "t", "w", "o">>, LEmpty,
            <<"P", "a", "r", "a">> >>, Newline),
    Join(<<LNumbered, LStar, LText, LBullet, LH2Bold>>, Newline),
    Join(<<LText, LInline, LHashOnly, LImageInText, LText>>, Newline),
    Join(<<LBulletImage, LNumberedImage, LH2Image, LH3Image, LImage>>, Newline) }

InitRender ==
  /\ blogContents = <<>>
  /\ posts = <<>>
  /\ id = 1
  /\ console = <<>>
  /\ op = [name |-> "none", arg |-> <<>>, ret |-> <<>>]
  /\ preceded = "nothing"
  /\ route = NoRoute
  /\ view = NoView
  /\ RenderIdle

\* renderContent(markdown): the split and the locals before the loop
RenderContent(text) ==
  /\ pc = "idle"
  /\ markdown' = text
  /\ lines' = Split(text)
  /\ index' = 0
  /\ elements' = <<>>
  /\ currentParagraph' = <<>>
  /\ inCodeBlock' = FALSE
  /\ codeLines' = <<>>
  /\ listItems' = <<>>
  /\ pc' = "loop"
  /\ UNCHANGED loaderVars

\* forEach has a line left; Line is the one the callback gets next
Looping == pc = "loop" /\ index < Len(lines)
Line == lines[index + 1]
Outside == Looping /\ ~IsFence(Line) /\ ~inCodeBlock
Advance == index' = index + 1 /\ UNCHANGED <<markdown, lines, pc, loaderVars>>

\* a closing fence that leaves the buffered lines in the code buffer
FenceCloseKeepingBuffer ==
  /\ Looping /\ IsFence(Line) /\ inCodeBlock
  /\ elements' = Append(elements, CodeBlock(Join(codeLines, Newline)))
  /\ inCodeBlock' = FALSE
  /\ UNCHANGED <<currentParagraph, listItems, codeLines>>
  /\ Advance

\* a fence while a code block is open: the block is emitted
FenceClose ==
  /\ Looping /\ IsFence(Line) /\ inCodeBlock
  /\ elements' = Append(elements, CodeBlock(Join(codeLines, Newline)))
  /\ codeLines' = <<>>
  /\ inCodeBlock' = FALSE
  /\ UNCHANGED <<currentParagraph, listItems>>
  /\ Advance

\* an opening fence that keeps what follows the backquotes as the first
\* line of the block
FenceOpenKeepingTag ==
  /\ Looping /\ IsFence(Line) /\ ~inCodeBlock
  /\ elements' = FlushBoth(elements, currentParagraph, listItems)
  /\ currentParagraph' = <<>>
  /\ listItems' = <<>>
  /\ inCodeBlock' = TRUE
  /\ codeLines' = IF Len(Line) > 3 THEN <<SubSeq(Line, 4, Len(Line))>> ELSE <<>>
  /\ Advance

\* an opening fence that leaves the paragraph and the list pending
FenceOpenWithoutFlush ==
  /\ Looping /\ IsFence(Line) /\ ~inCodeBlock
  /\ inCodeBlock' = TRUE
  /\ UNCHANGED <<elements, currentParagraph, listItems, codeLines>>
  /\ Advance

\* a fence while none is open: both buffers are emitted, the block opens
FenceOpen ==
  /\ Looping /\ IsFence(Line) /\ ~inCodeBlock
  /\ elements' = FlushBoth(elements, currentParagraph, listItems)
  /\ currentParagraph' = <<>>
  /\ listItems' = <<>>
  /\ inCodeBlock' = TRUE
  /\ UNCHANGED codeLines
  /\ Advance

\* a line in a code block buffered with its bold spans rewritten
CodeLineFormatted ==
  /\ Looping /\ ~IsFence(Line) /\ inCodeBlock
  /\ codeLines' = Append(codeLines, FormatBold(Line))
  /\ UNCHANGED <<elements, currentParagraph, inCodeBlock, listItems>>
  /\ Advance

\* any other line while a code block is open
CodeLine ==
  /\ Looping /\ ~IsFence(Line) /\ inCodeBlock
  /\ codeLines' = Append(codeLines, Line)
  /\ UNCHANGED <<elements, currentParagraph, inCodeBlock, listItems>>
  /\ Advance

\* a '## ' line that emits the paragraph and leaves the list pending
Heading2KeepingList ==
  /\ Outside /\ IsH2(Line)
  /\ elements' = Append(FlushParagraph(elements, currentParagraph),
                        Heading(2, ReplaceFirst(Line, <<"#", "#", " ">>, <<>>)))
  /\ currentParagraph' = <<>>
  /\ UNCHANGED <<inCodeBlock, codeLines, listItems>>
  /\ Advance

\* '## '
Heading2 ==
  /\ Outside /\ IsH2(Line)
  /\ elements' = Append(FlushBoth(elements, currentParagraph, listItems),
                        Heading(2, ReplaceFirst(Line, <<"#", "#", " ">>, <<>>)))
  /\ currentParagraph' = <<>>
  /\ listItems' = <<>>
  /\ UNCHANGED <<inCodeBlock, codeLines>>
  /\ Advance

\* '### '
Heading3 ==
  /\ Outside /\ ~IsH2(Line) /\ IsH3(Line)
  /\ elements' = Append(FlushBoth(elements, currentParagraph, listItems),
                        Heading(3, ReplaceFirst(Line, <<"#", "#", "#", " ">>, <<>>)))
  /\ currentParagraph' = <<>>
  /\ listItems' = <<>>
  /\ UNCHANGED <<inCodeBlock, codeLines>>
  /\ Advance

NoHeading == Outside /\ ~IsH2(Line) /\ ~IsH3(Line)

\* a numbered list line
NumberedItem ==
  /\ NoHeading /\ IsNumbered(Line)
  /\ elements' = FlushParagraph(elements, currentParagraph)
  /\ currentParagraph' = <<>>
  /\ listItems' = Append(listItems, FormatBold(StripNumber(Line)))
  /\ UNCHANGED <<inCodeBlock, codeLines>>
  /\ Advance

\* a bullet line that emits the paragraph and the list before it starts
\* a new list with its item
BulletItemFlushingBoth ==
  /\ NoHeading /\ ~IsNumbered(Line) /\ IsBullet(Line)
  /\ elements' = FlushBoth(elements, currentParagraph, listItems)
  /\ currentParagraph' = <<>>
  /\ listItems' = <<FormatBold(StripBullet(Line))>>
  /\ UNCHANGED <<inCodeBlock, codeLines>>
  /\ Advance

\* a bullet list line
BulletItem ==
  /\ NoHeading /\ ~IsNumbered(Line) /\ IsBullet(Line)
  /\ elements' = FlushParagraph(elements, currentParagraph)
  /\ currentParagraph' = <<>>
  /\ listItems' = Append(listItems, FormatBold(StripBullet(Line)))
  /\ UNCHANGED <<inCodeBlock, codeLines>>
  /\ Advance

NoMarker == NoHeading /\ ~IsNumbered(Line) /\ ~IsBullet(Line)

\* an empty line
BlankLine ==
  /\ NoMarker /\ IsBlank(Line)
  /\ elements' = FlushBoth(elements, currentParagraph, listItems)
  /\ currentParagraph' = <<>>
  /\ listItems' = <<>>
  /\ UNCHANGED <<inCodeBlock, codeLines>>
  /\ Advance

\* an image line whose text also goes to the paragraph buffer
ImageLineKeepingText ==
  /\ NoMarker /\ ~IsBlank(Line) /\ HasImage(Line)
  /\ elements' = Append(FlushBoth(elements, currentParagraph, listItems),
                        Image(ImageMatch(Line)[1].alt, ImageMatch(Line)[1].src))
  /\ currentParagraph' = <<FormatBold(Line)>>
  /\ listItems' = <<>>
  /\ UNCHANGED <<inCodeBlock, codeLines>>
  /\ Advance

\* a line with an image in it
ImageLine ==
  /\ NoMarker /\ ~IsBlank(Line) /\ HasImage(Line)
  /\ LET match == ImageMatch(Line)
         flushed == FlushBoth(elements, currentParagraph, listItems)
     IN elements' = IF match # <<>>
                    THEN Append(flushed, Image(match[1].alt, match[1].src))
                    ELSE flushed
  /\ currentParagraph' = <<>>
  /\ listItems' = <<>>
  /\ UNCHANGED <<inCodeBlock, codeLines>>
  /\ Advance

\* regular text
TextLine ==
  /\ NoMarker /\ ~IsBlank(Line) /\ ~HasImage(Line)
  /\ currentParagraph' = Append(currentParagraph, FormatBold(Line))
  /\ UNCHANGED <<elements, inCodeBlock, codeLines, listItems>>
  /\ Advance

\* a return that emits the pending paragraph and drops the pending list
FinalFlushParagraphOnly ==
  /\ pc = "loop" /\ index = Len(lines)
  /\ elements' = FlushParagraph(elements, currentParagraph)
  /\ pc' = "done"
  /\ UNCHANGED <<markdown, lines, index, currentParagraph, inCodeBlock,
                 codeLines, listItems, loaderVars>>

\* a return that also emits the block still open
FinalFlushWithCode ==
  /\ pc = "loop" /\ index = Len(lines)
  /\ elements' =
       IF inCodeBlock
       THEN Append(FlushBoth(elements, currentParagraph, listItems),
                   CodeBlock(Join(codeLines, Newline)))
       ELSE FlushBoth(elements, currentParagraph, listItems)
  /\ pc' = "done"
  /\ UNCHANGED <<markdown, lines, index, currentParagraph, inCodeBlock,
                 codeLines, listItems, loaderVars>>

\* after the loop: what is still pending is emitted, the nodes are returned
FinalFlush ==
  /\ pc = "loop" /\ index = Len(lines)
  /\ elements' = FlushBoth(elements, currentParagraph, listItems)
  /\ pc' = "done"
  /\ UNCHANGED <<markdown, lines, index, currentParagraph, inCodeBlock,
                 codeLines, listItems, loaderVars>>

\* the post page hands a markdown text to renderContent
CallRenderContent ==
  /\ pc = "idle"
  /\ \/ \E n \in 1..MaxLines : \E text \in Texts(n) : RenderContent(text)
     \/ \E text \in ExampleTexts : RenderContent(text)

NextRender ==
  \/ CallRenderContent
  \/ FenceClose
  \/ FenceOpen
  \/ CodeLine
  \/ Heading2
  \/ Heading3
  \/ NumberedItem
  \/ BulletItem
  \/ BlankLine
  \/ ImageLine
  \/ TextLine
  \/ FinalFlush

SpecRender == InitRender /\ [][NextRender]_vars

\* forEach and the statements after it run to the end once started
FairSpecRender == SpecRender /\ WF_vars(NextRender)

----------------------------------------------------------------------------
(* Properties of the loader *)

\* the positions of the table whose document the parser accepts
WellFormedDocs == { i \in DOMAIN blogContents : blogContents[i].content.wellFormed }

\* the category the front-matter of the document at position i asks for
AskedCategory(i) ==
  LET c == blogContents[i].content.data.category IN
  IF c = <<>> \/ c = << <<>> >> THEN General ELSE c[1]

\* the returned post built from the document at position i, if there is one
ReturnedFor(i) == { k \in DOMAIN op.ret : op.ret[k].content = Body(i) }

Loaded == op.name = "loadBlogPosts"
Unfiltered == op.arg = <<>> \/ op.arg = << <<>> >>

\* C1: a document that fails to parse removes only itself from the result:
\* every document that parses (and passes the filter) has its post returned,
\* whether it stands before or after a failing one.
C1_FailureIsolated ==
  Loaded =>
    \A i \in WellFormedDocs :
      (Unfiltered \/ AskedCategory(i) = op.arg[1]) => ReturnedFor(i) # {}

\* the posts of a sequence, as a set
PostSet(seq) == { seq[k] : k \in DOMAIN seq }

\* what loadBlogPosts(null) returns on the content table
UnfilteredLoad == LoadBlogPosts(blogContents, <<>>).posts

\* the result holds exactly the posts of the unfiltered load whose category
\* is the argument, each once
FilterExact ==
  /\ PostSet(op.ret) = { p \in PostSet(UnfilteredLoad) : p.category = op.arg[1] }
  /\ Cardinality(PostSet(op.ret)) = Len(op.ret)

\* C2 as stated: for every category string c, the empty string among them,
\* loadBlogPosts(c) returns exactly the posts of loadBlogPosts(null) whose
\* category equals c.
C2_FilterExactAnyString ==
  (Loaded /\ op.arg # <<>>) => FilterExact

\* C2 as amended: for every non-empty category string c, loadBlogPosts(c)
\* returns exactly the posts of loadBlogPosts(null) whose category equals c
\* (case-sensitive, whole string); it is empty when there is none. The empty
\* string is no filter.
C2_FilterExactNonEmpty ==
  (Loaded /\ ~Falsy(op.arg)) => FilterExact

\* a filtered load that kept some posts and dropped others
C2_Witness ==
  /\ Loaded /\ ~Falsy(op.arg)
  /\ op.ret # <<>>
  /\ Len(op.ret) < Len(UnfilteredLoad)

\* p1 stands at or after p2 in the calendar; no date, no comparison
DateGeq(p1, p2) ==
  /\ p1.date # <<>>
  /\ p2.date # <<>>
  /\ p1.date[1] >= p2.date[1]

SortedDescending(seq) ==
  \A k \in 1..(Len(seq) - 1) : DateGeq(seq[k], seq[k + 1])

\* C3 as stated: whatever the documents, every adjacent pair of the result is
\* in descending calendar order.
C3_SortedAlways ==
  Loaded => SortedDescending(op.ret)

\* C3 as amended: when every returned post has a date, every adjacent pair
\* of the result is in descending calendar order.
C3_SortedWhenDated ==
  (Loaded /\ \A k \in DOMAIN op.ret : op.ret[k].date # <<>>)
    => SortedDescending(op.ret)

\* a result the sort had to reorder: the later document carries the later date
C3_Witness ==
  /\ Loaded
  /\ Len(op.ret) >= 2
  /\ \A k \in DOMAIN op.ret : op.ret[k].date # <<>>
  /\ op.ret[1].date[1] > op.ret[2].date[1]
  /\ op.ret[1].id > op.ret[2].id

GotCategories == op.name = "getCategories"

NoDuplicates(seq) ==
  \A j, k \in DOMAIN seq : j # k => seq[j] # seq[k]

\* "All" first, then exactly the categories of the unfiltered load, ascending
AllThenSortedDistinct ==
  /\ Len(op.ret) >= 1
  /\ op.ret[1] = All
  /\ { op.ret[k] : k \in 2..Len(op.ret) } = { p.category : p \in PostSet(posts) }
  /\ \A k \in 2..(Len(op.ret) - 1) : StrLess(op.ret[k], op.ret[k + 1])

\* C4 as stated: "All", then the sorted distinct categories, and no entry of
\* the whole sequence occurs twice, for any content set.
C4_NoDuplicateAnywhere ==
  GotCategories => (AllThenSortedDistinct /\ NoDuplicates(op.ret))

\* C4 as amended: "All", then the distinct categories of loadBlogPosts(null)
\* in lexicographic order; the entries after the first are pairwise distinct,
\* and the whole sequence has a duplicate exactly when a post's category is
\* itself "All".
C4_SortedDistinctAfterAll ==
  GotCategories =>
    /\ AllThenSortedDistinct
    /\ NoDuplicates(Tail(op.ret))
    /\ NoDuplicates(op.ret) <=> (\A p \in PostSet(posts) : p.category # All)

\* two posts share a category, which getCategories lists once
C4_Witness ==
  /\ GotCategories
  /\ Len(op.ret) = 2
  /\ \E j, k \in DOMAIN posts : j # k /\ posts[j].category = posts[k].category

\* equal length and, position by position, equal in every field but id
SameExceptId(s, t) ==
  /\ Len(s) = Len(t)
  /\ \A k \in DOMAIN s :
       /\ s[k].slug = t[k].slug /\ s[k].title = t[k].title
       /\ s[k].date = t[k].date /\ s[k].excerpt = t[k].excerpt
       /\ s[k].content = t[k].content /\ s[k].category = t[k].category
       /\ s[k].tags = t[k].tags

FirstRejected ==
  LET bad == (DOMAIN blogContents) \ WellFormedDocs IN
  IF bad = {} THEN Len(blogContents) + 1
  ELSE CHOOSE i \in bad : \A j \in bad : i <= j

\* the loader's locals after a call are what the content table and the
\* argument alone determine: the posts of the documents up to the first
\* rejected one that pass the filter, each once, numbered by table position
\* from 1, and the counter one past the last document parsed
FreshResult ==
  LET arg == IF Loaded THEN op.arg ELSE <<>> IN
  op.name # "none" =>
    /\ PostSet(posts) =
         { q \in { BuildPost(i, blogContents[i].filename,
                             Matter(blogContents[i].content)) :
                     i \in 1..(FirstRejected - 1) } : Retained(arg, q) }
    /\ Cardinality(PostSet(posts)) = Len(posts)
    /\ id = FirstRejected

\* C6: no call changes the content table, and after every call of either
\* function the result is the one the argument and the content determine,
\* whatever was called before: nothing is left over, and the id counter
\* starts from 1 again.
C6_NoStateBetweenCalls ==
  [][blogContents' = blogContents /\ FreshResult']_vars

\* a load that follows a different call and returns the post numbered 1
C6_Witness ==
  /\ Loaded
  /\ preceded = "another call"
  /\ \E k \in DOMAIN op.ret : op.ret[k].id = 1

\* C7: a post has category "General" when its front-matter has no category
\* and no tags when its front-matter has no tags; title, date and excerpt are
\* copied as they are and are absent when the front-matter omits them.
C7_Defaults ==
  Loaded =>
    \A i \in DOMAIN blogContents : \A k \in ReturnedFor(i) :
      LET data == blogContents[i].content.data
          post == op.ret[k]
      IN /\ data.category = <<>> => post.category = General
         /\ data.category \notin {<<>>, << <<>> >>} => post.category = data.category[1]
         /\ data.tags = <<>> => post.tags = <<>>
         /\ data.tags # <<>> => post.tags = data.tags[1]
         /\ post.title = data.title
         /\ post.date = data.date
         /\ post.excerpt = data.excerpt

\* a returned post whose front-matter gives nothing at all
C7_Witness ==
  /\ Loaded
  /\ \E i \in DOMAIN blogContents :
       /\ ReturnedFor(i) # {}
       /\ blogContents[i].content.data = NoData

\* C8: the id of every returned post is the 1-based position of its document
\* in the content table, so the ids of one result are pairwise distinct, and
\* the ids of an unfiltered load that returns n posts are exactly 1..n.
C8_RunningIds ==
  Loaded =>
    /\ \A k \in DOMAIN op.ret :
         /\ op.ret[k].id \in DOMAIN blogContents
         /\ op.ret[k].content = blogContents[op.ret[k].id].content.body
    /\ \A j, k \in DOMAIN op.ret : j # k => op.ret[j].id # op.ret[k].id
    /\ Unfiltered => { op.ret[k].id : k \in DOMAIN op.ret } = 1..Len(op.ret)

\* a filtered load that skipped the first document and returned the second
C8_Witness ==
  /\ Loaded
  /\ ~Unfiltered
  /\ Len(op.ret) = 1
  /\ op.ret[1].id = 2

\* what loadBlogPosts(c) returns on the content table, as a set
LoadOf(c) == PostSet(LoadBlogPosts(blogContents, <<c>>).posts)

\* C26: the categories getCategories() offers partition the posts: each one
\* other than "All" gives a load that is not empty, and each post of the
\* unfiltered load is in the load of exactly one of the categories offered.
C26_CategoriesPartition ==
  GotCategories =>
    LET offered == { op.ret[k] : k \in DOMAIN op.ret } IN
    /\ \A c \in offered \ {All} : LoadOf(c) # {}
    /\ \A p \in PostSet(UnfilteredLoad) :
         Cardinality({ c \in offered : p \in LoadOf(c) }) = 1

\* getCategories() on two posts, one of the default category, one of another
C26_Witness ==
  /\ GotCategories
  /\ op.ret = <<All, AWS, General>>
  /\ Len(UnfilteredLoad) = 2

\* the posts of the documents that stand before the first one the parser
\* rejects
BeforeRejected ==
  { BuildPost(i, blogContents[i].filename, Matter(blogContents[i].content)) :
      i \in 1..(FirstRejected - 1) }

\* C27: loadBlogPosts lets no exception out.  When the parser rejects a
\* document, the call returns all the same: its result holds, each once, the
\* posts of the documents before the first rejected one that pass the
\* filter, newest first when each of them has a date, and the error is
\* logged once.  When no document is rejected, nothing is logged.
C27_ErrorCaught ==
  Loaded =>
    LET kept == { q \in BeforeRejected : Unfiltered \/ q.category = op.arg[1] } IN
    IF FirstRejected <= Len(blogContents)
    THEN /\ PostSet(op.ret) = kept
         /\ Len(op.ret) = Cardinality(kept)
         /\ (\A q \in kept : q.date # <<>>) => SortedDescending(op.ret)
         /\ Len(console) = 1
    ELSE console = <<>>

\* a load of a table whose second document is rejected: the post of the
\* first is returned and the error is in the log
C27_Witness ==
  /\ Loaded
  /\ FirstRejected = 2
  /\ Len(op.ret) = 1
  /\ op.ret[1].content = Body(1)
  /\ console # <<>>

----------------------------------------------------------------------------
(* Properties of the routed views *)

\* C9: in the detail view, a slug that no loaded post carries gives the
\* "not found" page, from which the button leads back to the list view, and
\* never a post; a slug that a loaded post carries gives that post's page,
\* never "not found". No other page results.
C9_UnknownSlugNotFound ==
  route.slug # <<>> =>
    LET known == \E p \in PostSet(UnfilteredLoad) : p.slug = route.slug[1] IN
    /\ view.page \in {"post", "notfound"}
    /\ ~known => (view.page = "notfound" /\ view.post = <<>> /\ BackButton)
    /\ known => (view.page = "post" /\ view.post # <<>>
                  /\ view.post[1].slug = route.slug[1])

\* the not-found page for the slug of a document that exists but was not
\* loaded, in a table from which another post was loaded
C9_Witness ==
  /\ view.page = "notfound"
  /\ UnfilteredLoad # <<>>
  /\ \E i \in DOMAIN blogContents :
       route.slug = <<ReplaceFirst(blogContents[i].filename, DotMd, <<>>)>>

\* the value of the category parameter of the list view's address
CategoryQuery == SearchParamsGet(route.search, CategoryKey)

\* the step is the choice of category c in the selector of the list view:
\* from the list view, to the address handleCategoryChange builds for c
Chose(c) ==
  /\ view.page = "home"
  /\ \E k \in DOMAIN view.categories : view.categories[k] = c
  /\ route'.path = <<"/">>
  /\ route'.search = IF c = All THEN <<>>
                     ELSE <<"?">> \o CategoryKey \o <<"=">> \o c

\* C24: in the list view the filter handed to the loader is null exactly
\* when the category parameter is absent, empty or "All", and is the
\* parameter's value otherwise, and the list is the load with that filter;
\* the choice of "All" in the selector leads to the list view without a
\* parameter and no filter, the choice of another category X to the list
\* view whose parameter and filter are X.
C24_FilterFromQuery ==
  /\ [](view.page = "home" =>
          /\ view.filter = <<>> <=>
               (CategoryQuery = <<>> \/ CategoryQuery[1] \in {<<>>, All})
          /\ view.filter # <<>> => view.filter = CategoryQuery
          /\ view.posts = LoadBlogPosts(blogContents, view.filter).posts)
  /\ [][ \A c \in {All, General, AWS, aws, CPlusPlus} :
           Chose(c) =>
             /\ view'.page = "home"
             /\ c = All => (CategoryQuery' = <<>> /\ view'.filter = <<>>)
             /\ c # All => (CategoryQuery' = <<c>> /\ view'.filter = <<c>>)
    ]_vars

\* the step is the selection of the k-th card of the list view: from the
\* list view, to the address handleSelectPost builds for that post
Selected(k) ==
  /\ view.page = "home"
  /\ k \in DOMAIN view.posts
  /\ route'.path = PostPrefix \o view.posts[k].slug

----------------------------------------------------------------------------
(* Properties of the renderer *)

\* the lines of the input set that match no syntax the renderer knows: a "#"
\* without the heading's blank, an image that is never closed, a number
\* without the list's blank
StrayLines == {LHashOnly, LImageUnclosed, LNumberNoSpace}

\* the lines of the input set that are fences
FenceLines == {LFence, LFenceJs}

\* line k of the input stands outside every code block: an even number of
\* fences precedes it
OutsideCode(k) ==
  Cardinality({ j \in 1..(k - 1) : lines[j] \in FenceLines }) % 2 = 0

\* some emitted paragraph holds the line as it was written
InSomeParagraph(line) ==
  \E n \in DOMAIN elements :
    /\ elements[n].type = "Paragraph"
    /\ IndexOf(elements[n].text, line, 1) # 0

\* renderContent never leaves its three stages nor passes the last line; when
\* it returns, forEach has passed every line; a stray line outside a code
\* block is the latest entry of the paragraph buffer right after its turn and
\* is part of a paragraph of the result
RenderWellBehaved ==
  /\ pc \in {"idle", "loop", "done"}
  /\ index <= Len(lines)
  /\ pc = "done" => index = Len(lines)
  /\ (pc = "loop" /\ index >= 1 /\ lines[index] \in StrayLines /\ OutsideCode(index))
       => (currentParagraph # <<>>
           /\ currentParagraph[Len(currentParagraph)] = lines[index])
  /\ pc = "done" =>
       \A k \in DOMAIN lines :
         (lines[k] \in StrayLines /\ OutsideCode(k)) => InSomeParagraph(lines[k])

\* C10: for every input (unbalanced fences, stray markers and the empty text
\* among them) renderContent takes the lines one by one, each once, and can
\* always go on until it has returned; it has no stage other than the loop
\* and the return; and a line that matches no recognised syntax, outside a
\* code block, becomes paragraph text.
C10_RendererTotal ==
  /\ [](RenderWellBehaved /\ (pc = "done" \/ ENABLED NextRender))
  /\ [][(pc = "loop" /\ pc' = "loop") => index' = index + 1]_vars

\* a finished run over a stray line followed by a fence that is never closed
C10_Witness ==
  /\ pc = "done"
  /\ Len(lines) >= 3
  /\ lines[1] \in StrayLines
  /\ inCodeBlock

\* the nodes a flush of the two buffers emits: the paragraph, if one is
\* pending, and then the list, if one is pending
Pending(para, items) ==
  (IF para = <<>> THEN <<>> ELSE <<Paragraph(Join(para, " "))>>)
    \o (IF items = <<>> THEN <<>> ELSE <<List(items)>>)

\* forEach is about to hand line index + 1 to the callback
AtLine == pc = "loop" /\ index < Len(lines)

\* the callback is about to get a line that starts with three backquotes
AtFence == AtLine /\ StartsWith(lines[index + 1], Fence)

\* the position of the last fence before line k
LastFence(k) ==
  CHOOSE j \in 1..(k - 1) :
    /\ StartsWith(lines[j], Fence)
    /\ \A i \in (j + 1)..(k - 1) : ~StartsWith(lines[i], Fence)

\* C11: a fence line toggles code-block mode.  Entering, the pending
\* paragraph and the pending list are emitted and both buffers emptied as
\* the mode turns on.  Leaving, exactly one CodeBlock is emitted whose text
\* is the input lines since the opening fence joined by newlines, the code
\* buffer is emptied and the mode turns off.
C11_FenceToggles ==
  [][ /\ (AtFence /\ ~inCodeBlock) =>
           /\ elements' = elements \o Pending(currentParagraph, listItems)
           /\ currentParagraph' = <<>>
           /\ listItems' = <<>>
           /\ inCodeBlock'
      /\ (AtFence /\ inCodeBlock) =>
           /\ elements' =
                Append(elements,
                       CodeBlock(Join(SubSeq(lines, LastFence(index + 1) + 1, index),
                                      Newline)))
           /\ codeLines' = <<>>
           /\ ~inCodeBlock'
           /\ UNCHANGED <<currentParagraph, listItems>>
    ]_vars

\* a fence met with a paragraph and a list pending, and its block of three
\* lines closed: the paragraph, the list, then the block
C11_Witness ==
  /\ pc = "loop"
  /\ index = 7
  /\ Len(elements) = 3
  /\ elements[1].type = "Paragraph"
  /\ elements[2].type = "List"
  /\ elements[3] = CodeBlock(LH2 \o <<Newline>> \o <<Newline>> \o LBullet)
  /\ codeLines = <<>>
  /\ ~inCodeBlock

\* the rule of the if-else chain that claims a line outside a code block
Kind(line) ==
  IF StartsWith(line, Fence) THEN "fence"
  ELSE IF StartsWith(line, <<"#", "#", " ">>) THEN "h2"
  ELSE IF StartsWith(line, <<"#", "#", "#", " ">>) THEN "h3"
  ELSE IF IsNumbered(line) THEN "numbered"
  ELSE IF IsBullet(line) THEN "bullet"
  ELSE IF \A k \in DOMAIN line : line[k] \in {" ", "\t"} THEN "blank"
  ELSE IF HasImage(line) THEN "image"
  ELSE "text"

\* the positions of the output that hold a node of the type
NodesOf(type) == { n \in DOMAIN elements : elements[n].type = type }

\* the input lines outside every code block that a rule of the kinds claims
LinesOf(kinds) ==
  { k \in DOMAIN lines : OutsideCode(k) /\ Kind(lines[k]) \in kinds }

\* C12: inside a code block a line that is not a fence is appended to the
\* code buffer as it is, whatever rule it would match outside, and nothing
\* else changes: no node is emitted and the paragraph and list buffers, empty
\* in a code block, stay empty.  So the result has as many headings and
\* images as there are heading and image lines outside the code blocks.
C12_CodeLinesVerbatim ==
  /\ [](inCodeBlock => currentParagraph = <<>> /\ listItems = <<>>)
  /\ [](pc = "done" =>
          /\ Cardinality(NodesOf("Heading")) = Cardinality(LinesOf({"h2", "h3"}))
          /\ Cardinality(NodesOf("Image")) = Cardinality(LinesOf({"image"})))
  /\ [][ (AtLine /\ inCodeBlock /\ ~StartsWith(lines[index + 1], Fence)) =>
           /\ codeLines' = Append(codeLines, lines[index + 1])
           /\ inCodeBlock'
           /\ UNCHANGED <<elements, currentParagraph, listItems>>
    ]_vars

\* a heading line, an empty line and a list line buffered in an open block
C12_Witness ==
  /\ pc = "loop"
  /\ inCodeBlock
  /\ codeLines = <<LH2, LEmpty, LBullet>>
  /\ NodesOf("Heading") = {}
  /\ Len(elements) = 2

\* the callback is about to get, outside a code block, a line of the kinds
AtKind(kinds) == AtLine /\ ~inCodeBlock /\ Kind(lines[index + 1]) \in kinds

\* the line without its first n characters
Beyond(line, n) == SubSeq(line, n + 1, Len(line))

\* the level of a heading line and the length of its marker
LevelOf(line) == IF Kind(line) = "h2" THEN 2 ELSE 3

\* the list item a list line gives
ItemOf(line) ==
  FormatBold(Beyond(line, IF Kind(line) = "numbered"
                          THEN NumberedMarker(line) ELSE 2))

\* C13: outside a code block a "## " or "### " line emits the pending
\* paragraph, the pending list and then a Heading of level 2 or 3 whose text
\* is the line without the marker, bold markers left as written; both buffers
\* end empty.  In the result a list line directly followed by a heading is
\* the last item of a list that stands right before that heading.
C13_HeadingFlushes ==
  /\ [](pc = "done" =>
          \A k \in LinesOf({"numbered", "bullet"}) :
            (k < Len(lines) /\ Kind(lines[k + 1]) \in {"h2", "h3"}) =>
              \E n \in NodesOf("List") :
                /\ elements[n].items[Len(elements[n].items)] = ItemOf(lines[k])
                /\ n < Len(elements)
                /\ elements[n + 1] =
                     Heading(LevelOf(lines[k + 1]),
                             Beyond(lines[k + 1], LevelOf(lines[k + 1]) + 1)))
  /\ [][ AtKind({"h2", "h3"}) =>
           /\ elements' =
                elements \o Pending(currentParagraph, listItems)
                  \o << Heading(LevelOf(lines[index + 1]),
                                Beyond(lines[index + 1],
                                       LevelOf(lines[index + 1]) + 1)) >>
           /\ currentParagraph' = <<>>
           /\ listItems' = <<>>
    ]_vars

\* a finished run whose last line is a heading with bold markers in it,
\* right after a list line: the list, then the heading with the markers
C13_Witness ==
  /\ pc = "done"
  /\ Len(elements) >= 2
  /\ elements[Len(elements)] = Heading(2, <<"*", "*", "T", "*", "*">>)
  /\ elements[Len(elements) - 1].type = "List"
  /\ Kind(lines[Len(lines) - 1]) = "bullet"

\* the input "- one\n- two\n\nPara"
OneTwoPara ==
  Join(<< <<"-", " ", "o", "n", "e">>, <<"-", " ", "t", "w", "o">>, <<>>,
          <<"P", "a", "r", "a">> >>, Newline)

\* C14: outside a code block a numbered or bullet line emits the pending
\* paragraph only, and the list buffer, left in place, gets the line without
\* its marker and with its bold spans rewritten as its last entry.  So a run
\* of list lines of either style gives one List with one item a line, in
\* order, without the numbers; "- one\n- two\n\nPara" gives the list of
\* "one" and "two" and then the paragraph "Para".
C14_ListLinesAccumulate ==
  /\ [](pc = "done" =>
          /\ (lines # <<>> /\ \A k \in DOMAIN lines :
                               Kind(lines[k]) \in {"numbered", "bullet"})
               => elements = << List([k \in DOMAIN lines |-> ItemOf(lines[k])]) >>
          /\ lines = <<LNumbered, LBullet, LStar>>
               => elements = << List(<< <<"a">>, <<"<strong>", "b", "</strong>">>,
                                        <<"c">> >>) >>
          /\ markdown = OneTwoPara
               => elements = << List(<< <<"o", "n", "e">>, <<"t", "w", "o">> >>),
                                Paragraph(<<"P", "a", "r", "a">>) >>)
  /\ [][ AtKind({"numbered", "bullet"}) =>
           /\ elements' = elements \o Pending(currentParagraph, <<>>)
           /\ currentParagraph' = <<>>
           /\ listItems' = Append(listItems, ItemOf(lines[index + 1]))
    ]_vars

\* a finished run over a numbered line and two bullet lines of both styles
C14_Witness ==
  /\ pc = "done"
  /\ lines = <<LNumbered, LBullet, LStar>>
  /\ Len(elements) = 1
  /\ Len(elements[1].items) = 3

\* the paragraph text that LText gives
BoldText == <<"p", " ", "<strong>", "q", "</strong>">>

\* C15: outside a code block a line with an image reference in it, that no
\* heading or list rule claims, emits the pending paragraph, the pending
\* list and then one Image with the reference's first capture as alt and its
\* second as src; both buffers end empty, so the text around the reference
\* reaches no paragraph.
C15_ImageLine ==
  /\ [](pc = "done" =>
          /\ lines \in {<<LImage>>, <<LImageInText>>}
               => elements = << Image(<<"A">>, <<"s">>) >>
          /\ lines = <<LText, LImageInText, LText>>
               => elements = << Paragraph(BoldText), Image(<<"A">>, <<"s">>),
                                Paragraph(BoldText) >>)
  /\ [][ AtKind({"image"}) =>
           /\ ImageMatch(lines[index + 1]) # <<>>
           /\ elements' =
                elements \o Pending(currentParagraph, listItems)
                  \o << Image(ImageMatch(lines[index + 1])[1].alt,
                              ImageMatch(lines[index + 1])[1].src) >>
           /\ currentParagraph' = <<>>
           /\ listItems' = <<>>
    ]_vars

\* a finished run over an image reference with text around it, between two
\* text lines
C15_Witness ==
  /\ pc = "done"
  /\ lines = <<LText, LImageInText, LText>>
  /\ Len(elements) = 3
  /\ elements[2].type = "Image"

\* C16: outside a code block an empty line or a line of white space emits
\* the pending paragraph and the pending list, leaves both buffers empty and
\* emits nothing of its own: two text lines with white space between them give
\* two paragraphs, and blank lines alone give no node.
C16_BlankLineFlushes ==
  /\ [](pc = "done" =>
          /\ (\A k \in DOMAIN lines : lines[k] \in {LEmpty, LSpaces})
               => elements = <<>>
          /\ lines = <<LText, LSpaces, LText>>
               => elements = << Paragraph(BoldText), Paragraph(BoldText) >>)
  /\ [][ AtKind({"blank"}) =>
           /\ elements' = elements \o Pending(currentParagraph, listItems)
           /\ currentParagraph' = <<>>
           /\ listItems' = <<>>
    ]_vars

\* a white-space line passed with a list pending, then a text line: the list
\* and the paragraph, nothing for the white space
C16_Witness ==
  /\ pc = "done"
  /\ lines = <<LBullet, LSpaces, LText>>
  /\ elements = << List(<< <<"<strong>", "b", "</strong>">> >>),
                   Paragraph(BoldText) >>

\* the first line of the run of text lines that ends with line i (i + 1
\* when line i is no text line)
RunStart(i) ==
  CHOOSE j \in 1..(i + 1) :
    /\ \A k \in j..i : Kind(lines[k]) = "text"
    /\ j = 1 \/ Kind(lines[j - 1]) # "text"

\* C17: outside a code block a line that no other rule claims is appended to
\* the paragraph buffer with each **text** span rewritten as a strong span,
\* and no node is emitted; the buffer holds exactly the run of text lines the
\* callback has just passed, so a maximal run becomes one Paragraph of its
\* lines joined by single spaces; italics, links and inline code are left as
\* written.
C17_TextLinesAccumulate ==
  /\ []((pc = "loop" /\ ~inCodeBlock) =>
          currentParagraph =
            [k \in 1..(index + 1 - RunStart(index)) |->
               FormatBold(lines[RunStart(index) + k - 1])])
  /\ [](pc = "done" =>
          /\ lines = <<LText, LInline, LHashOnly>>
               => elements = << Paragraph(BoldText \o <<" ">> \o LInline
                                            \o <<" ">> \o LHashOnly) >>
          /\ lines = <<LText>> => elements = << Paragraph(BoldText) >>)
  /\ [][ AtKind({"text"}) =>
           /\ currentParagraph' =
                Append(currentParagraph, FormatBold(lines[index + 1]))
           /\ UNCHANGED <<elements, listItems>>
    ]_vars

\* a finished run over three text lines, with a bold span, italics, a link
\* and inline code among them: one paragraph
C17_Witness ==
  /\ pc = "done"
  /\ lines = <<LText, LInline, LHashOnly>>
  /\ Len(elements) = 1
  /\ elements[1].type = "Paragraph"
  /\ Len(currentParagraph) = 3

\* some emitted list has the item
InSomeList(item) ==
  \E n \in NodesOf("List") :
    \E i \in DOMAIN elements[n].items : elements[n].items[i] = item

\* C18: once forEach has passed the last line, the paragraph and the list
\* still pending are emitted, in that order, as the last nodes and the nodes
\* are returned.  So in the result every text line outside the code blocks
\* is part of a paragraph and every list line outside them is an item of a
\* list.
C18_FinalFlush ==
  /\ [](pc = "done" =>
          /\ \A k \in LinesOf({"text"}) : InSomeParagraph(FormatBold(lines[k]))
          /\ \A k \in LinesOf({"numbered", "bullet"}) : InSomeList(ItemOf(lines[k])))
  /\ [][ (pc = "loop" /\ index = Len(lines)) =>
           /\ elements' = elements \o Pending(currentParagraph, listItems)
           /\ pc' = "done"
    ]_vars

\* a return with a paragraph and a list both pending: they are the last two
\* nodes
C18_Witness ==
  /\ pc = "done"
  /\ currentParagraph # <<>>
  /\ listItems # <<>>
  /\ Len(elements) >= 2
  /\ elements[Len(elements) - 1] = Paragraph(Join(currentParagraph, " "))
  /\ elements[Len(elements)] = List(listItems)

\* a heading or image line emits what is pending of both buffers, then its
\* own node, and leaves both buffers empty
FlushesBoth ==
  /\ Len(elements') = Len(elements) + Len(Pending(currentParagraph, listItems)) + 1
  /\ SubSeq(elements', 1, Len(elements') - 1) =
       elements \o Pending(currentParagraph, listItems)
  /\ currentParagraph' = <<>>
  /\ listItems' = <<>>

\* C19 as stated: heading lines, image lines and list lines all flush both
\* buffers; a list line emits the pending paragraph and the pending list and
\* empties both buffers before its own item starts the list buffer anew.
C19_ListStartFlushesBoth ==
  [][ /\ AtKind({"h2", "h3", "image"}) => FlushesBoth
      /\ AtKind({"numbered", "bullet"}) =>
           /\ elements' = elements \o Pending(currentParagraph, listItems)
           /\ currentParagraph' = <<>>
           /\ listItems' = <<ItemOf(lines[index + 1])>>
    ]_vars

\* C19 (amended): heading lines and image lines flush both buffers, an empty
\* buffer emitting nothing; a list line flushes the paragraph buffer only:
\* it emits no List, and the list buffer keeps what it held and gets the
\* line's item, so it is not empty after the line.  A bullet line, a text
\* line and a bullet line give the paragraph and then one list of two items.
C19_ListStartFlushesParagraphOnly ==
  /\ [](pc = "done" =>
          (lines = <<LBullet, LText, LStar>> =>
             elements = << Paragraph(BoldText),
                           List(<< <<"<strong>", "b", "</strong>">>, <<"c">> >>) >>))
  /\ [][ /\ AtKind({"h2", "h3", "image"}) => FlushesBoth
         /\ AtKind({"numbered", "bullet"}) =>
              /\ Len(elements') = Len(elements) + (IF currentParagraph = <<>> THEN 0 ELSE 1)
              /\ \A n \in (Len(elements) + 1)..Len(elements') :
                   elements'[n].type = "Paragraph"
              /\ currentParagraph' = <<>>
              /\ SubSeq(listItems', 1, Len(listItems)) = listItems
              /\ Len(listItems') = Len(listItems) + 1
    ]_vars

\* a list line just passed with an item and a paragraph pending: the
\* paragraph is out, the list buffer holds both items and no List is out
C19_Witness ==
  /\ pc = "loop"
  /\ index = 3
  /\ SubSeq(lines, 1, 3) = <<LBullet, LText, LStar>>
  /\ elements = << Paragraph(BoldText) >>
  /\ Len(listItems) = 2
  /\ currentParagraph = <<>>

\* node n of the result is built from line k of the input
BuiltFrom(n, k) ==
  LET line == lines[k]
      node == elements[n]
  IN CASE Kind(line) \in {"h2", "h3"} ->
            node = Heading(LevelOf(line), Beyond(line, LevelOf(line) + 1))
       [] Kind(line) \in {"numbered", "bullet"} ->
            /\ node.type = "List"
            /\ \E i \in DOMAIN node.items : node.items[i] = ItemOf(line)
       [] Kind(line) = "image" ->
            /\ ImageMatch(line) # <<>>
            /\ node = Image(ImageMatch(line)[1].alt, ImageMatch(line)[1].src)
       [] Kind(line) = "text" ->
            /\ node.type = "Paragraph"
            /\ IndexOf(node.text, FormatBold(line), 1) # 0
       [] OTHER -> FALSE

\* C20: the nodes of the result stand in source order: of two lines outside
\* the code blocks that give a node each, the node of the earlier line does
\* not stand after the node of the later line, so the lines' nodes can be
\* picked with the earlier line's node first (or as one node for both).
C20_SourceOrder ==
  pc = "done" =>
    \A k, m \in LinesOf({"h2", "h3", "numbered", "bullet", "image", "text"}) :
      k < m =>
        \E n1, n2 \in DOMAIN elements :
          n1 <= n2 /\ BuiltFrom(n1, k) /\ BuiltFrom(n2, m)

\* the rule that claims a line by the order fence, heading, list marker,
\* image, blank, plain text
RuleOf(line) ==
  IF StartsWith(line, Fence) THEN "fence"
  ELSE IF StartsWith(line, <<"#", "#", " ">>)
          \/ StartsWith(line, <<"#", "#", "#", " ">>) THEN "heading"
  ELSE IF NumberedMarker(line) # 0 \/ StartsWith(line, <<"-", " ">>)
          \/ StartsWith(line, <<"*", " ">>) THEN "list"
  ELSE IF ImageMatch(line) # <<>> THEN "image"
  ELSE IF \A k \in DOMAIN line : line[k] \in {" ", "\t"} THEN "blank"
  ELSE "text"

\* the callback is about to get a line that the rule claims by that order
AtRule(rule) == AtLine /\ RuleOf(lines[index + 1]) = rule

\* the types of the nodes a step adds to the output
Added == { elements'[n].type : n \in (Len(elements) + 1)..Len(elements') }

\* C21: each line is handled by the first rule that matches it in the order
\* fence, inside-code, heading, list marker, image, blank, plain text (the
\* image and blank tests can stand in either order, no line passing both):
\* a fence toggles the mode; inside a block any other line is buffered;
\* outside, a heading line adds a Heading and no Image, a list line adds an
\* item and no Image, even with an image reference in it, an image line adds
\* an Image, a blank line adds no node of its own and a text line adds to
\* the paragraph buffer.  The result has one Image for each line outside the
\* code blocks that the image rule claims by that order.
C21_FirstMatchingRule ==
  /\ [](pc = "done" =>
          Cardinality(NodesOf("Image")) =
            Cardinality({ k \in DOMAIN lines :
                            OutsideCode(k) /\ RuleOf(lines[k]) = "image" }))
  /\ [][ /\ AtRule("fence") => inCodeBlock' # inCodeBlock
         /\ (AtLine /\ inCodeBlock /\ RuleOf(lines[index + 1]) # "fence") =>
              /\ Len(codeLines') = Len(codeLines) + 1
              /\ Added = {}
         /\ (AtRule("heading") /\ ~inCodeBlock) =>
              /\ elements'[Len(elements')].type = "Heading"
              /\ "Image" \notin Added
         /\ (AtRule("list") /\ ~inCodeBlock) =>
              /\ Len(listItems') = Len(listItems) + 1
              /\ Added \subseteq {"Paragraph"}
         /\ (AtRule("image") /\ ~inCodeBlock) =>
              /\ elements'[Len(elements')].type = "Image"
              /\ Added \subseteq {"Paragraph", "List", "Image"}
         /\ (AtRule("blank") /\ ~inCodeBlock) =>
              /\ Added \subseteq {"Paragraph", "List"}
              /\ currentParagraph' = <<>>
         /\ (AtRule("text") /\ ~inCodeBlock) =>
              /\ Len(currentParagraph') = Len(currentParagraph) + 1
              /\ Added = {}
    ]_vars

\* list lines and heading lines with an image reference in them have been
\* passed: two items pending a moment ago, two headings out, no Image
C21_Witness ==
  /\ pc = "loop"
  /\ index = 4
  /\ SubSeq(lines, 1, 4) = <<LBulletImage, LNumberedImage, LH2Image, LH3Image>>
  /\ Len(elements) = 3
  /\ elements[1].type = "List"
  /\ Len(elements[1].items) = 2
  /\ elements[2] = Heading(2, LImage)
  /\ elements[3] = Heading(3, LImage)

\* the language tag of the annotated fence of the input set
Tag == <<"j", "s">>

\* the texts a node holds
TextsOf(node) ==
  {node.text, node.alt, node.src} \cup { node.items[i] : i \in DOMAIN node.items }

\* C22: the language tag after an opening fence is dropped.  A fence with a
\* tag opens the block as a bare fence does: the pending paragraph and list
\* are emitted, the mode turns on and the code buffer is still empty after
\* the line.  No node of the output, CodeBlock or other, holds the tag; a
\* tagged fence, a text line and a fence give the CodeBlock of the text line.
C22_LanguageTagDiscarded ==
  /\ [](\A n \in DOMAIN elements :
          \A t \in TextsOf(elements[n]) : IndexOf(t, Tag, 1) = 0)
  /\ [](\A i \in DOMAIN codeLines : codeLines[i] # Tag)
  /\ [](pc = "done" =>
          (lines = <<LFenceJs, LText, LFence>> => elements = << CodeBlock(LText) >>))
  /\ [][ (AtFence /\ ~inCodeBlock) =>
           /\ elements' = elements \o Pending(currentParagraph, listItems)
           /\ inCodeBlock'
           /\ codeLines' = <<>>
    ]_vars

\* a block opened by a tagged fence and closed: its CodeBlock is the line
\* between the fences
C22_Witness ==
  /\ pc = "done"
  /\ lines = <<LFenceJs, LText, LFence>>
  /\ elements = << CodeBlock(LText) >>

\* the lines the callback has passed that lie outside the code blocks and
\* are of the kinds
PassedOf(kinds) == { k \in LinesOf(kinds) : k <= index }

\* C23: a flush of an empty buffer emits nothing.  At every moment each
\* Paragraph of the output has a text and holds a text line that was passed,
\* each List has an item, and there are no more Paragraphs than text lines
\* passed nor more Lists than list lines passed, whatever the input.
C23_NoEmptyNodes ==
  /\ \A n \in NodesOf("Paragraph") :
       /\ elements[n].text # <<>>
       /\ \E k \in PassedOf({"text"}) :
            IndexOf(elements[n].text, FormatBold(lines[k]), 1) # 0
  /\ \A n \in NodesOf("List") : elements[n].items # <<>>
  /\ Cardinality(NodesOf("Paragraph")) <= Cardinality(PassedOf({"text"}))
  /\ Cardinality(NodesOf("List")) <= Cardinality(PassedOf({"numbered", "bullet"}))

\* a heading, an empty line, a fence and the return, each flushing two empty
\* buffers: the heading is the only node
C23_Witness ==
  /\ pc = "done"
  /\ lines = <<LH2, LEmpty, LFence>>
  /\ elements = << Heading(2, <<"T">>) >>

\* the positions of the fence lines among the first k lines
FencesUpTo(k) == { j \in 1..k : StartsWith(lines[j], Fence) }

\* the position of the i-th fence line
FenceAt(i) ==
  CHOOSE k \in FencesUpTo(Len(lines)) : Cardinality(FencesUpTo(k)) = i

\* the position in the output of the j-th CodeBlock
CodeNode(j) ==
  CHOOSE n \in NodesOf("CodeBlock") :
    Cardinality({ m \in NodesOf("CodeBlock") : m <= n }) = j

\* C28: the output has one CodeBlock for every two fence lines passed, the
\* odd one left over opening a block that is never emitted: the j-th
\* CodeBlock is the lines between the fences 2j - 1 and 2j, so no line after
\* an unmatched opening fence is in a CodeBlock; such a line changes no node
\* when it is passed, and the return with a block open adds no node.  A text
\* line, a fence and a heading line give the paragraph alone.
C28_UnclosedBlockDropped ==
  /\ [](Cardinality(NodesOf("CodeBlock")) = Cardinality(FencesUpTo(index)) \div 2)
  /\ [](inCodeBlock <=> Cardinality(FencesUpTo(index)) % 2 = 1)
  /\ [](\A j \in 1..Cardinality(NodesOf("CodeBlock")) :
          elements[CodeNode(j)] =
            CodeBlock(Join(SubSeq(lines, FenceAt(2 * j - 1) + 1, FenceAt(2 * j) - 1),
                           Newline)))
  /\ [](pc = "done" =>
          /\ (lines = <<LText, LFenceJs, LH2>> => elements = << Paragraph(BoldText) >>)
          /\ (lines # <<>> /\ FencesUpTo(Len(lines)) = {1}) => elements = <<>>)
  /\ [][ /\ (AtLine /\ inCodeBlock /\ ~StartsWith(lines[index + 1], Fence)) =>
              elements' = elements
         /\ (pc = "loop" /\ index = Len(lines) /\ inCodeBlock) =>
              (elements' = elements /\ pc' = "done")
    ]_vars

\* a return with a block open that holds a heading line: the paragraph from
\* before the fence is the only node
C28_Witness ==
  /\ pc = "done"
  /\ inCodeBlock
  /\ lines = <<LText, LFenceJs, LH2>>
  /\ codeLines = <<LH2>>
  /\ elements = << Paragraph(BoldText) >>

\* C30: before, during and after the loop of renderContent, while the
\* code-block mode is on the paragraph buffer and the list buffer are both
\* empty, and while it is off the code buffer is empty.
C30_BuffersExclusive ==
  /\ inCodeBlock => (currentParagraph = <<>> /\ listItems = <<>>)
  /\ ~inCodeBlock => codeLines = <<>>

\* a block that was entered with a paragraph and a list pending holds three
\* lines; after its closing fence and a heading the mode is off and the
\* code buffer empty
C30_Witness ==
  /\ pc = "done"
  /\ Len(lines) = 8
  /\ NodesOf("CodeBlock") = {3}
  /\ NodesOf("Paragraph") = {1}
  /\ NodesOf("List") = {2}
  /\ ~inCodeBlock
  /\ codeLines = <<>>

====
